---- MODULE Spec2Model ----
(***************************************************************************)
(* Run orchestration of the Strands Swarm Console (swarm-ui/src/App.tsx,   *)
(* the App component of lines 502-755): the Run handler runSwarm, the      *)
(* EventSource listeners it registers, the poll loop fetchFinal and the    *)
(* trace controls, as one state machine.                                   *)
(*                                                                         *)
(* The component's state cells (useState / useRef) are the variables of    *)
(* the same names.  Every asynchronous function is cut at its awaits: one  *)
(* action is the code that runs between two suspension points (JavaScript  *)
(* runs each task and its microtasks to completion).  The remote service,  *)
(* the browser's EventSource and the operator are the environment: their   *)
(* choices are the \E-bound inputs of the actions.                         *)
(*                                                                         *)
(* JavaScript null and undefined are the strings Null and Undefined, an    *)
(* empty ref slot is NoRun, booleans carried by JSON are strings.          *)
(* Date.now() timestamps (TraceEvent.ts) are not modelled.  A state setter  *)
(* called after the component has unmounted changes nothing (React drops   *)
(* the update); refs, requests, timers and EventSources live on.           *)
(***************************************************************************)
EXTENDS Integers, Sequences, FiniteSets, TLC

\* ------------------------------------------------------------ bounds
\* Number of runs (runSwarm calls that pass validation) in one behaviour.
MaxRuns == 2
\* Longest TraceLog the environment is allowed to build.
MaxTrace == 2
\* Not-ready answers per poll loop in the specifications that do not study
\* the retry budget itself.
MaxNotReady == 1
\* done messages the service puts on one stream (it may duplicate events).
MaxDone == 2
\* Agents in the roster (addAgent has no limit in the source).
MaxAgents == 4

\* ------------------------------------------------------------ constants
\* for (let i = 0; i < 120; i++) in fetchFinal
PollBudget == 120

Null == "null"
Undefined == "undefined"
NoRun == 0

Runs == 1..MaxRuns

\* ------------------------------------------------------------ state
VARIABLES
    task,       \* useState('')            : the task text, a sequence of characters
    agents,     \* useState<AgentSpec[]>(DEFAULT_AGENTS): the roster
    settings,   \* useState<SwarmSettings>(DEFAULT_SETTINGS)
    loading,    \* useState(false)
    resp,       \* useState<RunResponse|null>(null)
    error,      \* useState<string|null>(null)
    runId,      \* useState<string|null>(null)
    streaming,  \* useState(false)
    traces,     \* useState<TraceEvent[]>([])
    esRef,      \* useRef<EventSource|null>(null): the run whose EventSource is in the slot
    runs,       \* one record per runSwarm invocation: where its closure stands
    nruns,      \* number of runSwarm invocations that passed validation
    submits,    \* number of POST api/run/start requests issued
    doneSent,   \* per run: done messages the service has put on its stream
    mounted,    \* whether the component is mounted (its effect cleanup has not run)
    traceRun,   \* history: for each entry of traces, the run whose listener appended it
    arrived,    \* history: for each entry of traces, the event the listener was called with
    respRun     \* history: the run whose poll loop set resp (NoRun when resp is null)

vars == <<task, agents, settings, loading, resp, error, runId, streaming, traces,
          esRef, runs, nruns, submits, doneSent, mounted, traceRun, arrived, respRun>>

\* ------------------------------------------------------------ values
\* Texts are sequences of characters.  A character is written as itself;
\* one that cannot be written in a string here is written by its code point,
\* as "U+00A0" for the no-break space.

\* WhiteSpace of the language: TAB, VT, FF, ZWNBSP and the space separators
\* (SP, NBSP, U+1680, U+2000 to U+200A, U+202F, U+205F, U+3000).
WhiteSpace ==
    {"\t", "U+000B", "\f", "U+FEFF", " ", "U+00A0", "U+1680",
     "U+2000", "U+2001", "U+2002", "U+2003", "U+2004", "U+2005", "U+2006",
     "U+2007", "U+2008", "U+2009", "U+200A", "U+202F", "U+205F", "U+3000"}

\* LineTerminator of the language: LF, CR, LS, PS.
LineTerminator == {"\n", "\r", "U+2028", "U+2029"}

\* The characters String.prototype.trim and StringToNumber drop at the ends
\* of a text.
StrWhiteSpaceChar == WhiteSpace \cup LineTerminator

\* The task texts the operator types into the textarea: the empty text, a
\* text of white space only (a space, a tab, a line feed, a no-break space),
\* and a task with white space around it.
TaskTexts ==
    {<<>>, <<" ", "\t", "\n", "U+00A0">>, <<"\n", " ", "a", "b", " ", "\t">>}

\* String.prototype.trim: drop leading and trailing white space and line
\* terminators.
RECURSIVE TrimStart(_)
TrimStart(s) ==
    IF s # <<>> /\ Head(s) \in StrWhiteSpaceChar THEN TrimStart(Tail(s)) ELSE s
RECURSIVE TrimEnd(_)
TrimEnd(s) ==
    IF s # <<>> /\ s[Len(s)] \in StrWhiteSpaceChar
    THEN TrimEnd(SubSeq(s, 1, Len(s) - 1)) ELSE s
Trim(s) == TrimEnd(TrimStart(s))

\* The opaque run id the service gives the n-th submitted run.
Handle(n) == "run-" \o ToString(n)

\* Message texts on the wire.
StartData == "{\"task\":\"T\"}"
LogData == "{\"level\":\"INFO\",\"message\":\"handing off\"}"
ErrorData == "{\"error\":\"agent failed\"}"
StatusData == "{\"status\":\"COMPLETED\",\"has_output\":true}"
EmptyObject == "{}"
BadData == "{not json"
RunIdBody(n) == "{\"run_id\":\"" \o Handle(n) \o "\"}"
ResultBodyA == "{\"status\":\"COMPLETED\",\"node_history\":[\"researcher\",\"architect\"]}"
ResultBodyB == "{\"status\":\"FAILED\",\"node_history\":[]}"

EmptyRecord == [f \in {} |-> Undefined]

\* JSON.parse on the texts above: the parsed object, or a thrown SyntaxError.
JSONParse(s) ==
    CASE s = StartData   -> [ok |-> TRUE, value |-> [task |-> "T"]]
      [] s = LogData     -> [ok |-> TRUE, value |-> [level |-> "INFO", message |-> "handing off"]]
      [] s = ErrorData   -> [ok |-> TRUE, value |-> [error |-> "agent failed"]]
      [] s = StatusData  -> [ok |-> TRUE, value |-> [status |-> "COMPLETED", has_output |-> "true"]]
      [] s = EmptyObject -> [ok |-> TRUE, value |-> EmptyRecord]
      [] s = ResultBodyA -> [ok |-> TRUE, value |->
                               [status |-> "COMPLETED", node_history |-> <<"researcher", "architect">>]]
      [] s = ResultBodyB -> [ok |-> TRUE, value |-> [status |-> "FAILED", node_history |-> <<>>]]
      [] \E n \in Runs : s = RunIdBody(n) ->
            [ok |-> TRUE, value |-> [run_id |-> Handle(CHOOSE n \in Runs : s = RunIdBody(n))]]
      [] OTHER           -> [ok |-> FALSE, value |-> EmptyRecord]

\* function safeParse(s) { try { return JSON.parse(s) } catch { return undefined } }
\* The result is <<object>>, or << >> for undefined.
safeParse(s) == IF JSONParse(s).ok THEN <<JSONParse(s).value>> ELSE <<>>

\* d?.f
Get(d, f) == IF d = <<>> THEN Undefined
             ELSE IF f \in DOMAIN d[1] THEN d[1][f] ELSE Undefined

\* a || b on strings
OrElse(a, b) == IF a \in {Undefined, Null, ""} THEN b ELSE a

\* A validation that records no message.
ValidationMessageMissing == Null

\* Error messages.
ValidationMessage == "Please enter a task before running the swarm."
TimeoutMessage == "Timed out waiting for result"
FetchRejectMessage == "Failed to fetch"
JsonRejectMessage == "Unexpected token in JSON"
HttpMessage(status) == "HTTP " \o ToString(status)

\* ------------------------------------------------------------ environment inputs
\* What the service can put on a stream: a named message and its data text.
StreamMessages ==
    {[event |-> "ready", data |-> ""]}
    \cup {[event |-> "start", data |-> d] : d \in {StartData, BadData}}
    \cup {[event |-> "log", data |-> d] : d \in {LogData, BadData}}
    \cup {[event |-> "error", data |-> d] : d \in {ErrorData, BadData}}
    \cup {[event |-> "summary", data |-> d] : d \in {StatusData, BadData}}
    \cup {[event |-> "done", data |-> d] : d \in {StatusData, BadData}}

\* What fetch can yield: a rejected promise (status 0), or a response with a
\* status and a body text.
SubmitResponses(n) ==
    {[status |-> 0, body |-> ""], [status |-> 500, body |-> ""],
     [status |-> 200, body |-> BadData], [status |-> 200, body |-> EmptyObject],
     [status |-> 200, body |-> RunIdBody(n)]}
PollResponses ==
    {[status |-> 0, body |-> ""], [status |-> 202, body |-> ""],
     [status |-> 304, body |-> ""], [status |-> 500, body |-> ""],
     [status |-> 200, body |-> BadData],
     [status |-> 200, body |-> ResultBodyA], [status |-> 200, body |-> ResultBodyB]}

\* Response.ok
Ok(rsp) == rsp.status >= 200 /\ rsp.status <= 299

\* What `await fetch(...)` and the ok test throw for a response, as the
\* message of the error; Null when nothing is thrown.
HeadersThrown(rsp) ==
    IF rsp.status = 0 THEN FetchRejectMessage
    ELSE IF ~Ok(rsp) THEN HttpMessage(rsp.status)
    ELSE Null

\* What `await r.json()` throws for the body of a response.
BodyThrown(rsp) == IF ~JSONParse(rsp.body).ok THEN JsonRejectMessage ELSE Null

\* What the request throws over both awaits.
Thrown(rsp) == IF HeadersThrown(rsp) # Null THEN HeadersThrown(rsp) ELSE BodyThrown(rsp)

\* ------------------------------------------------------------ defaults
\* DEFAULT_AGENTS
DEFAULT_AGENTS ==
    << [name |-> "researcher", system_prompt |-> "You are a research specialist..."],
       [name |-> "coder", system_prompt |-> "You are a coding specialist..."],
       [name |-> "reviewer", system_prompt |-> "You are a code review specialist..."],
       [name |-> "architect", system_prompt |-> "You are a system architecture specialist..."] >>

\* DEFAULT_SETTINGS
DEFAULT_SETTINGS ==
    [max_handoffs |-> 20, max_iterations |-> 20, execution_timeout |-> 900,
     node_timeout |-> 300, repetitive_handoff_detection_window |-> 8,
     repetitive_handoff_min_unique_agents |-> 3, entry_point |-> "researcher"]

\* ------------------------------------------------------------ initial state
\* A run record: pc is where the closure of that runSwarm call stands
\* ("none" not started, "submit" awaiting the POST, "submitBody" awaiting
\* the body of its answer, "stream" listeners registered, "poll" awaiting a
\* GET of fetchFinal, "pollBody" awaiting the body of its answer, "wait" awaiting its
\* timer, "end" returned or thrown); task is the submitted text; run_id the
\* closure's run_id; es the readyState of its EventSource ("none" before
\* new EventSource, then "open" or "closed"); i the loop counter of
\* fetchFinal.  History of its poll loop: polls the GET requests issued,
\* loops the calls of fetchFinal, notReady the 202 answers received, last the
\* answer received last, out how the run ended, superseded whether a later
\* start happened while the loop was in flight, sub the answer its submit
\* request received, orphaned whether the component unmounted while the loop
\* was in flight, closes the calls of close() the program made on its
\* EventSource.
NoResponse == [status |-> -1, body |-> ""]
NewRun == [pc |-> "none", task |-> <<>>, run_id |-> Null, es |-> "none",
           i |-> 0, polls |-> 0, loops |-> 0, notReady |-> 0,
           last |-> NoResponse, out |-> "none", superseded |-> FALSE,
           sub |-> NoResponse, orphaned |-> FALSE, closes |-> 0]

Init ==
    /\ task = <<>>
    /\ agents = DEFAULT_AGENTS
    /\ settings = DEFAULT_SETTINGS
    /\ loading = FALSE
    /\ resp = <<>>
    /\ error = Null
    /\ runId = Null
    /\ streaming = FALSE
    /\ traces = <<>>
    /\ esRef = NoRun
    /\ runs = [r \in Runs |-> NewRun]
    /\ nruns = 0
    /\ submits = 0
    /\ doneSent = [r \in Runs |-> 0]
    /\ mounted = TRUE
    /\ traceRun = <<>>
    /\ arrived = <<>>
    /\ respRun = NoRun

\* ------------------------------------------------------------ helpers of the handlers
\* A state setter (setResp, setError, ...): the new value of the cell, which
\* is the old one once the component has unmounted.
SetState(cur, v) == IF mounted THEN v ELSE cur

\* An addTrace that puts the new event in front.
addTracePrepend(prev, t) == <<t>> \o prev

\* addTrace: setTraces(prev => [...prev, {...t, ts}])
addTrace(prev, t) == Append(prev, t)

\* A closure that has returned holds no state any more: when the next run
\* starts, the records of the runs that have ended are cleared.
Retire(rs) == [r \in Runs |-> IF rs[r].pc = "end" THEN [NewRun EXCEPT !.pc = "end"] ELSE rs[r]]

\* History: a start marks the runs whose poll loop is in flight.
Supersede(rs) ==
    [r \in Runs |-> IF rs[r].pc \in {"poll", "pollBody", "wait"}
                    THEN [rs[r] EXCEPT !.superseded = TRUE] ELSE rs[r]]

\* History: an unmount marks the runs whose poll loop is in flight.
Orphan(rs) ==
    [r \in Runs |-> IF rs[r].pc \in {"poll", "pollBody", "wait"}
                    THEN [rs[r] EXCEPT !.orphaned = TRUE] ELSE rs[r]]

\* A detach that closes the EventSource and leaves it in the slot.
DetachKeepsSlot(slot, rs) ==
    [slot |-> slot,
     rs |-> IF slot = NoRun THEN rs
            ELSE [rs EXCEPT ![slot].es = "closed", ![slot].closes = @ + 1]]

\* esRef.current?.close(); esRef.current = null on a slot and the run
\* records: the EventSource in the slot, if any, is closed (close() on a
\* closed EventSource does nothing) and the slot is emptied.
Detach(slot, rs) ==
    [slot |-> NoRun,
     rs |-> IF slot = NoRun THEN rs
            ELSE [rs EXCEPT ![slot].es = "closed", ![slot].closes = @ + 1]]

\* esRef.current?.close() on the component's slot.
CloseSlot(rs) == Detach(esRef, rs).rs

\* The TraceEvent a listener builds from a named message (lines 554-568).
TraceOf(r, msg) ==
    LET d == safeParse(msg.data) IN
    CASE msg.event = "ready" ->
            [type |-> "ready", message |-> "stream ready", run_id |-> runs[r].run_id]
      [] msg.event = "start" ->
            [type |-> "start", run_id |-> runs[r].run_id, task |-> Get(d, "task")]
      [] msg.event = "log" ->
            [type |-> "log", level |-> OrElse(Get(d, "level"), "LOG"),
             message |-> Get(d, "message")]
      [] msg.event = "error" ->
            [type |-> "error", message |-> OrElse(Get(d, "error"), "server error")]
      [] msg.event \in {"done", "summary"} ->
            [type |-> msg.event, status |-> Get(d, "status"),
             has_output |-> Get(d, "has_output"),
             output_preview |-> Get(d, "output_preview"),
             transcript_preview |-> Get(d, "transcript_preview")]

\* ------------------------------------------------------------ operator actions
\* onChange of the task textarea: setTask(e.target.value)
SetTask(t) ==
    /\ mounted
    /\ task' = t
    /\ UNCHANGED <<loading, resp, error, runId, streaming, traces, esRef,
                   runs, nruns, submits, doneSent, mounted, traceRun, arrived, respRun>>
    /\ UNCHANGED <<agents, settings>>

\* A Clear button that clears the result as well.
clearTracesAndResult ==
    /\ mounted
    /\ traces' = <<>>
    /\ traceRun' = <<>>
    /\ arrived' = <<>>
    /\ resp' = <<>>
    /\ respRun' = NoRun
    /\ UNCHANGED <<task, loading, error, runId, streaming, esRef,
                   runs, nruns, submits, doneSent, mounted>>
    /\ UNCHANGED <<agents, settings>>

\* clearTraces, the Clear button of the trace controls
clearTraces ==
    /\ mounted
    /\ traces' = <<>>
    /\ traceRun' = <<>>
    /\ arrived' = <<>>
    /\ UNCHANGED <<task, loading, resp, error, runId, streaming, esRef,
                   runs, nruns, submits, doneSent, mounted, respRun>>
    /\ UNCHANGED <<agents, settings>>

\* The cleanup of useEffect(() => () => {...}, []): the component unmounts.
Unmount ==
    /\ mounted
    /\ mounted' = FALSE
    /\ esRef' = Detach(esRef, runs).slot
    /\ runs' = Detach(esRef, Orphan(runs)).rs
    /\ UNCHANGED <<task, loading, resp, error, runId, streaming, traces,
                   nruns, submits, doneSent, traceRun, arrived, respRun>>
    /\ UNCHANGED <<agents, settings>>

\* A validation that takes only the space character for white space.
BlankTaskSpacesOnly == task = <<>> \/ \A k \in DOMAIN task : task[k] = " "

\* if (!task || !task.trim())
BlankTask == task = <<>> \/ Trim(task) = <<>>

\* A reset that forgets clearTraces().
ResetKeepsTraces ==
    /\ error' = Null
    /\ resp' = <<>>
    /\ respRun' = NoRun
    /\ runId' = Null
    /\ UNCHANGED <<traces, traceRun, arrived>>

\* A reset that leaves the previous result in place.
ResetKeepsResult ==
    /\ error' = Null
    /\ runId' = Null
    /\ traces' = <<>>
    /\ traceRun' = <<>>
    /\ arrived' = <<>>
    /\ UNCHANGED <<resp, respRun>>

\* A reset that leaves the previous error in place.
ResetKeepsError ==
    /\ resp' = <<>>
    /\ respRun' = NoRun
    /\ runId' = Null
    /\ traces' = <<>>
    /\ traceRun' = <<>>
    /\ arrived' = <<>>
    /\ UNCHANGED error

\* setError(null); setResp(null); setRunId(null); clearTraces()
Reset ==
    /\ error' = Null
    /\ resp' = <<>>
    /\ respRun' = NoRun
    /\ runId' = Null
    /\ traces' = <<>>
    /\ traceRun' = <<>>
    /\ arrived' = <<>>

\* const payload = { task: task.trim(), agents, settings }
payload == [task |-> Trim(task), agents |-> agents, settings |-> settings]

\* A runSwarm that resets the console before it validates the task.
runSwarmResetsFirst ==
    IF BlankTask
    THEN /\ error' = ValidationMessage
         /\ resp' = <<>>
         /\ respRun' = NoRun
         /\ runId' = Null
         /\ traces' = <<>>
         /\ traceRun' = <<>>
         /\ arrived' = <<>>
         /\ UNCHANGED <<task, agents, settings, loading, streaming, esRef,
                        runs, nruns, submits, doneSent, mounted>>
    ELSE /\ nruns < MaxRuns
         /\ Reset
         /\ esRef' = NoRun
         /\ loading' = TRUE
         /\ streaming' = TRUE
         /\ nruns' = nruns + 1
         /\ submits' = submits + 1
         /\ runs' = [Retire(CloseSlot(Supersede(runs))) EXCEPT ![nruns + 1] =
                        [NewRun EXCEPT !.pc = "submit", !.task = payload.task]]
         /\ doneSent' = [r \in Runs |-> IF runs[r].pc = "end" THEN 0 ELSE doneSent[r]]
         /\ UNCHANGED <<task, agents, settings, mounted>>

\* runSwarm up to its first await: validation, reset, POST api/run/start.
runSwarm ==
    IF BlankTask
    THEN /\ error' = ValidationMessage
         /\ UNCHANGED <<task, agents, settings, loading, resp, runId, streaming, traces, esRef,
                        runs, nruns, submits, doneSent, mounted, traceRun, arrived,
                        respRun>>
    ELSE /\ nruns < MaxRuns
         /\ Reset
         /\ esRef' = NoRun
         /\ loading' = TRUE
         /\ streaming' = TRUE
         /\ nruns' = nruns + 1
         /\ submits' = submits + 1
         /\ runs' = [Retire(CloseSlot(Supersede(runs))) EXCEPT ![nruns + 1] =
                        [NewRun EXCEPT !.pc = "submit", !.task = payload.task]]
         /\ doneSent' = [r \in Runs |-> IF runs[r].pc = "end" THEN 0 ELSE doneSent[r]]
         /\ UNCHANGED <<task, agents, settings, mounted>>

\* A Run button that is never disabled.
ClickRunAlwaysEnabled == runSwarm

\* A Run button that is disabled only while a stream is attached.
ClickRunWhileNoStream ==
    /\ mounted
    /\ esRef = NoRun
    /\ runSwarm

\* <Button onClick={runSwarm} disabled={loading || streaming}>
ClickRun ==
    /\ mounted
    /\ ~(loading \/ streaming)
    /\ runSwarm

\* ------------------------------------------------------------ roster
\* entryOptions = agents.map(a => a.name)
entryOptions == [k \in DOMAIN agents |-> agents[k].name]

\* The name the operator types into the Name field of an agent card.
RenameTexts == {"lead"}

\* The patches of the Name field: updateAgent(idx, { name: e.target.value })
Patches == {[name |-> n] : n \in RenameTexts}

\* { ...copy[idx], ...patch }
Merge(a, patch) ==
    [f \in DOMAIN a \cup DOMAIN patch |-> IF f \in DOMAIN patch THEN patch[f] ELSE a[f]]

\* updateAgent(idx, patch); indices count from 1 here, from 0 in the source.
updateAgent(idx, patch) ==
    /\ mounted
    /\ idx \in DOMAIN agents
    /\ agents' = [agents EXCEPT ![idx] = Merge(@, patch)]
    /\ UNCHANGED <<task, settings, loading, resp, error, runId, streaming, traces,
                   esRef, runs, nruns, submits, doneSent, mounted, traceRun, arrived,
                   respRun>>

\* name: `agent_${prev.length + 1}`
NextName == "agent_" \o ToString(Len(agents) + 1)

\* addAgent, the + Add Agent button
addAgent ==
    /\ mounted
    /\ Len(agents) < MaxAgents
    /\ agents' = Append(agents, [name |-> NextName,
                                   system_prompt |-> "You are a helpful specialist..."])
    /\ UNCHANGED <<task, settings, loading, resp, error, runId, streaming, traces,
                   esRef, runs, nruns, submits, doneSent, mounted, traceRun, arrived,
                   respRun>>

\* prev.filter((_, i) => i !== idx)
Without(s, idx) == [k \in 1..(Len(s) - 1) |-> IF k < idx THEN s[k] ELSE s[k + 1]]

\* removeAgent(idx), the Remove button of an agent card
removeAgent(idx) ==
    /\ mounted
    /\ idx \in DOMAIN agents
    /\ agents' = Without(agents, idx)
    /\ UNCHANGED <<task, settings, loading, resp, error, runId, streaming, traces,
                   esRef, runs, nruns, submits, doneSent, mounted, traceRun, arrived,
                   respRun>>

\* onChange of the entry point select: one of the options it renders.
SelectEntry(n) ==
    /\ mounted
    /\ \E k \in DOMAIN entryOptions : entryOptions[k] = n
    /\ settings' = [settings EXCEPT !.entry_point = n]
    /\ UNCHANGED <<task, agents, loading, resp, error, runId, streaming, traces,
                   esRef, runs, nruns, submits, doneSent, mounted, traceRun, arrived,
                   respRun>>

\* The texts the operator leaves in a number field of the Entry & Limits
\* panel, as sequences of characters: a number, the empty text, a text that
\* is no number.
NumberTexts == {<<"1", "2">>, <<>>, <<"x">>}

\* Texts of the other shapes Number(...) tells apart: a sign, a fraction, an
\* exponent, surrounding white space, a radix prefix, Infinity, and texts
\* that only resemble them.
LiteralTexts ==
    NumberTexts \cup
    {<<"-", "5">>, <<"+", "3">>, <<"-", "0">>, <<"1", ".", "5">>, <<".", "5">>,
     <<"5", ".">>, <<"1", "e", "3">>, <<"1", "5", "e", "-", "1">>,
     <<" ", "7", " ">>, <<"\n", "7", "U+00A0">>,
     <<"0", "x", "1", "0">>, <<"0", "b", "1", "1">>,
     <<"-", "0", "x", "1">>, <<"1", "e">>, <<".">>, <<"1", " ", "2">>,
     <<"I", "n", "f", "i", "n", "i", "t", "y">>, <<"-">> \o <<"I", "n", "f", "i", "n", "i", "t", "y">>, <<"1", "e", "9", "9", "9">>,
     <<"1", "e", "-", "9", "9", "9">>}

\* The values Number(...) gives that are no finite number.
NaN == "NaN"
Infinity == "Infinity"
NegInfinity == "-Infinity"

Digits == <<"0", "1", "2", "3", "4", "5", "6", "7", "8", "9">>

IsDigit(c) == \E d \in DOMAIN Digits : Digits[d] = c

DigitValue(c) == (CHOOSE d \in DOMAIN Digits : Digits[d] = c) - 1

DecimalValue(s, n) ==
    IF n = 0 THEN 0
    ELSE LET Value[k \in 0..n] ==
                 IF k = 0 THEN 0 ELSE 10 * Value[k - 1] + DigitValue(s[k])
         IN Value[n]

\* The literal Infinity, as a text.
InfinityText == <<"I", "n", "f", "i", "n", "i", "t", "y">>

\* The digits of the radix prefixes 0x, 0o and 0b, in both cases.
HexLower == <<"0", "1", "2", "3", "4", "5", "6", "7", "8", "9",
              "a", "b", "c", "d", "e", "f">>
HexUpper == <<"0", "1", "2", "3", "4", "5", "6", "7", "8", "9",
              "A", "B", "C", "D", "E", "F">>

\* The value of a character as a digit; 16 for a character that is a digit
\* in no radix.
RadixValue(c) ==
    IF \E k \in DOMAIN HexLower : HexLower[k] = c
    THEN (CHOOSE k \in DOMAIN HexLower : HexLower[k] = c) - 1
    ELSE IF \E k \in DOMAIN HexUpper : HexUpper[k] = c
    THEN (CHOOSE k \in DOMAIN HexUpper : HexUpper[k] = c) - 1
    ELSE 16

\* The radix a prefix character stands for; 0 when it is no prefix character.
Radix(c) ==
    IF c \in {"x", "X"} THEN 16
    ELSE IF c \in {"o", "O"} THEN 8
    ELSE IF c \in {"b", "B"} THEN 2
    ELSE 0

RECURSIVE StripZerosStart(_)
StripZerosStart(ds) ==
    IF ds # <<>> /\ Head(ds) = "0" THEN StripZerosStart(Tail(ds)) ELSE ds
RECURSIVE StripZerosEnd(_)
StripZerosEnd(ds) ==
    IF ds # <<>> /\ ds[Len(ds)] = "0"
    THEN StripZerosEnd(SubSeq(ds, 1, Len(ds) - 1)) ELSE ds

\* The number of decimal digits of u that follow one another from position
\* `from` on.
RECURSIVE DigitRun(_, _)
DigitRun(u, from) ==
    IF from <= Len(u) /\ IsDigit(u[from]) THEN 1 + DigitRun(u, from + 1) ELSE 0

\* ds followed by zeros, n digits in all.
PadTo(ds, n) == ds \o [k \in 1..(n - Len(ds)) |-> "0"]

\* a <= b for two digit sequences of one length.
DigitsLeq(a, b) ==
    \/ a = b
    \/ \E k \in 1..Len(a) :
          /\ \A j \in 1..(k - 1) : a[j] = b[j]
          /\ DigitValue(a[k]) < DigitValue(b[k])

\* The finite numbers the model holds exactly are those of at most
\* SignificantDigits significant decimal digits, the number of digits every
\* double keeps apart: two texts of that many digits give one double exactly
\* when they denote one decimal.  An integer below 10^IntegerDigits is held
\* as an integer, any other number as its sign, its significant digits and
\* the decimal exponent of the last of them (1.5 is the digits 15 with
\* exponent -1).  The sign of a zero is not held: -0 is 0.
SignificantDigits == 15
IntegerDigits == 9

\* A text whose double is not held exactly (more significant digits than
\* SignificantDigits, a radix literal of IntegerDigits + 1 digits or more,
\* a subnormal finer than the steps between doubles) has no value in the
\* model.
Unheld(s) == CHOOSE v \in {} : v = s

\* 15 digits just below the least decimal that rounds to Infinity
\* (2^1024 - 2^970 = 1.7976931348623158079...e308) and just below or at half
\* the least double (2^-1075 = 2.4703282292062327...e-324), which rounds to 0.
MaxFiniteDigits == <<"1", "7", "9", "7", "6", "9", "3", "1", "3", "4", "8", "6", "2", "3", "1">>
HalfMinDigits == <<"2", "4", "7", "0", "3", "2", "8", "2", "2", "9", "2", "0", "6", "2", "3">>

\* The double nearest to (-1)^neg * 0.D * 10^(Len(D) + e) for the digits D and
\* the exponent e of the last of them.
Decimal(neg, digits, e) ==
    LET lead == StripZerosStart(digits)
        D == StripZerosEnd(lead)
        exp == e + (Len(lead) - Len(D))
        order == Len(D) + exp
        kind ==
            IF D = <<>> THEN "zero"
            ELSE IF order > 309 THEN "infinite"
            ELSE IF order < -323 THEN "zero"
            ELSE IF Len(D) > SignificantDigits THEN "unheld"
            ELSE IF order = 309 /\ ~DigitsLeq(PadTo(D, SignificantDigits), MaxFiniteDigits)
            THEN "infinite"
            ELSE IF order = -323 /\ DigitsLeq(PadTo(D, SignificantDigits), HalfMinDigits)
            THEN "zero"
            ELSE IF exp < -323 THEN "unheld"
            ELSE IF exp >= 0 /\ order <= IntegerDigits THEN "integer"
            ELSE "decimal"
    IN  CASE kind = "zero" -> 0
          [] kind = "infinite" -> IF neg THEN NegInfinity ELSE Infinity
          [] kind = "unheld" -> Unheld(digits)
          [] kind = "integer" ->
                IF neg THEN 0 - DecimalValue(PadTo(D, order), order)
                ELSE DecimalValue(PadTo(D, order), order)
          [] kind = "decimal" -> [neg |-> neg, digits |-> D, exp |-> exp]

\* StrUnsignedDecimalLiteral: digits, an optional fraction and an optional
\* exponent part, with a digit before or after the point and at least one
\* digit in the exponent; NaN when u is not of that shape.
StrDecimalLiteral(u, neg) ==
    LET n1 == DigitRun(u, 1)
        p1 == 1 + n1
        hasDot == p1 <= Len(u) /\ u[p1] = "."
        n2 == IF hasDot THEN DigitRun(u, p1 + 1) ELSE 0
        p2 == IF hasDot THEN p1 + 1 + n2 ELSE p1
        hasExp == p2 <= Len(u) /\ u[p2] \in {"e", "E"}
        hasSign == hasExp /\ p2 + 1 <= Len(u) /\ u[p2 + 1] \in {"+", "-"}
        p3 == IF hasSign THEN p2 + 2 ELSE p2 + 1
        n3 == IF hasExp THEN DigitRun(u, p3) ELSE 0
        wellFormed ==
            /\ n1 + n2 >= 1
            /\ IF hasExp THEN n3 >= 1 /\ p3 + n3 = Len(u) + 1
               ELSE p2 = Len(u) + 1
        X == StripZerosStart(SubSeq(u, p3, p3 + n3 - 1))
        x == IF Len(X) > IntegerDigits THEN 999999999 ELSE DecimalValue(X, Len(X))
        e == IF ~hasExp THEN 0
             ELSE IF hasSign /\ u[p2 + 1] = "-" THEN 0 - x ELSE x
    IN  IF ~wellFormed THEN NaN
        ELSE Decimal(neg, SubSeq(u, 1, n1) \o SubSeq(u, p1 + 1, p1 + n2), e - n2)

\* NonDecimalIntegerLiteral: 0x, 0o or 0b and at least one digit of the
\* radix, without a sign.
NonDecimalIntegerLiteral(t) ==
    LET radix == Radix(t[2])
        ds == SubSeq(t, 3, Len(t))
        D == StripZerosStart(ds)
        held == IF radix = 16 THEN 7 ELSE IF radix = 8 THEN 9 ELSE 29
        Value[k \in 0..Len(D)] ==
            IF k = 0 THEN 0 ELSE radix * Value[k - 1] + RadixValue(D[k])
    IN  IF ds = <<>> \/ \E k \in DOMAIN ds : RadixValue(ds[k]) >= radix THEN NaN
        ELSE IF Len(D) > held THEN Unheld(t)
        ELSE Value[Len(D)]

\* Number(e.target.value), the StringToNumber of the language: white space
\* and line terminators are dropped at both ends, as trim drops them; the empty text is 0; a radix literal, a signed
\* Infinity or a signed decimal literal is its value, rounded to Infinity
\* or to 0 beyond the range of the doubles; any other text is NaN.
Number(s) ==
    LET t == Trim(s)
        signed == Head(t) \in {"+", "-"}
        u == IF signed THEN Tail(t) ELSE t
    IN  IF t = <<>> THEN 0
        ELSE IF Len(t) >= 2 /\ t[1] = "0" /\ Radix(t[2]) # 0
        THEN NonDecimalIntegerLiteral(t)
        ELSE IF u = InfinityText
        THEN (IF Head(t) = "-" THEN NegInfinity ELSE Infinity)
        ELSE StrDecimalLiteral(u, Head(t) = "-")

\* The number fields of the panel, by the setting each one edits.
LimitFields ==
    {"max_handoffs", "max_iterations", "execution_timeout", "node_timeout",
     "repetitive_handoff_detection_window", "repetitive_handoff_min_unique_agents"}

\* onChange of a FieldNumber: setSettings(s => ({ ...s, [field]: v })) with
\* v = Number(e.target.value)
SetLimit(field, text) ==
    /\ mounted
    /\ field \in LimitFields
    /\ settings' = [settings EXCEPT ![field] = Number(text)]
    /\ UNCHANGED <<task, agents, loading, resp, error, runId, streaming, traces,
                   esRef, runs, nruns, submits, doneSent, mounted, traceRun, arrived,
                   respRun>>

\* ------------------------------------------------------------ submit response
\* A catch block that issues the submit request again.
SubmitResponseRetries(r, rsp) ==
    /\ runs[r].pc = "submit"
    /\ IF HeadersThrown(rsp) # Null
       THEN /\ submits' = submits + 1
            /\ runs' = [runs EXCEPT ![r].sub = rsp]
       ELSE /\ runs' = [runs EXCEPT ![r].pc = "submitBody", ![r].sub = rsp]
            /\ UNCHANGED submits
    /\ UNCHANGED <<error, loading, streaming, esRef, runId>>
    /\ UNCHANGED <<task, resp, traces, nruns, doneSent, mounted, traceRun,
                   arrived, respRun>>
    /\ UNCHANGED <<agents, settings>>

\* A catch block that forgets setStreaming(false).
SubmitResponseKeepsStreaming(r, rsp) ==
    /\ runs[r].pc = "submit"
    /\ IF HeadersThrown(rsp) # Null
       THEN /\ error' = SetState(error, OrElse(HeadersThrown(rsp), "Request failed"))
            /\ loading' = SetState(loading, FALSE)
            /\ esRef' = NoRun
            /\ runs' = [CloseSlot(runs) EXCEPT ![r].pc = "end", ![r].out = "error",
                                               ![r].sub = rsp]
            /\ UNCHANGED streaming
       ELSE /\ runs' = [runs EXCEPT ![r].pc = "submitBody", ![r].sub = rsp]
            /\ UNCHANGED <<error, loading, streaming, esRef>>
    /\ UNCHANGED <<task, resp, runId, traces, nruns, submits, doneSent, mounted,
                   traceRun, arrived, respRun>>
    /\ UNCHANGED <<agents, settings>>

\* runSwarm resumed after `await fetch(api/run/start)`: the ok test, then
\* startRes.json() called and awaited (the body is still being read), or
\* the catch block.  sub keeps the response whose body is in transit.
SubmitResponse(r, rsp) ==
    /\ runs[r].pc = "submit"
    /\ IF HeadersThrown(rsp) # Null
       THEN /\ error' = SetState(error, OrElse(HeadersThrown(rsp), "Request failed"))
            /\ loading' = SetState(loading, FALSE)
            /\ streaming' = SetState(streaming, FALSE)
            /\ esRef' = NoRun
            /\ runs' = [CloseSlot(runs) EXCEPT ![r].pc = "end", ![r].out = "error",
                                               ![r].sub = rsp]
       ELSE /\ runs' = [runs EXCEPT ![r].pc = "submitBody", ![r].sub = rsp]
            /\ UNCHANGED <<error, loading, streaming, esRef>>
    /\ UNCHANGED <<task, resp, runId, traces, nruns, submits, doneSent, mounted,
                   traceRun, arrived, respRun>>
    /\ UNCHANGED <<agents, settings>>

\* runSwarm resumed after `await startRes.json()`: setRunId, the EventSource
\* and its listeners; or the catch block when the body is not JSON.
SubmitBody(r) ==
    /\ runs[r].pc = "submitBody"
    /\ LET rsp == runs[r].sub IN
       IF BodyThrown(rsp) # Null
       THEN /\ error' = SetState(error, OrElse(BodyThrown(rsp), "Request failed"))
            /\ loading' = SetState(loading, FALSE)
            /\ streaming' = SetState(streaming, FALSE)
            /\ esRef' = NoRun
            /\ runs' = [CloseSlot(runs) EXCEPT ![r].pc = "end", ![r].out = "error"]
            /\ UNCHANGED runId
       ELSE LET run_id == Get(safeParse(rsp.body), "run_id") IN
            /\ runId' = SetState(runId, run_id)
            /\ esRef' = r
            /\ runs' = [runs EXCEPT ![r].pc = "stream", ![r].run_id = run_id,
                                    ![r].es = "open"]
            /\ UNCHANGED <<error, loading, streaming>>
    /\ UNCHANGED <<task, resp, traces, nruns, submits, doneSent, mounted, traceRun,
                   arrived, respRun>>
    /\ UNCHANGED <<agents, settings>>

\* ------------------------------------------------------------ stream listeners
\* The event an EventSource fires when its connection fails: a plain event
\* named error, which has no data.
NativeError == [event |-> "error", data |-> Undefined]

\* es.onerror = () => addTrace({ type: 'client-error', ... })
ClientError == [type |-> "client-error", message |-> "stream connection error"]

\* es.onerror is the handler of every event named error dispatched on the
\* EventSource: the native one and a server message named error alike.
ReachesOnError(msg) == msg.event = "error"

\* The TraceLog after the dispatch of msg on the stream of run r: the
\* listener added for its name appends one entry, then es.onerror appends
\* another when the event is named error.
Dispatch(prev, r, msg) ==
    IF ReachesOnError(msg) THEN addTrace(addTrace(prev, TraceOf(r, msg)), ClientError)
    ELSE addTrace(prev, TraceOf(r, msg))

\* History: x once for each entry the dispatch of msg appends.
PerEntry(msg, x) == IF ReachesOnError(msg) THEN <<x, x>> ELSE <<x>>

\* Listeners of which the one for summary is terminal like the one for done.
onMessageSummaryTerminal(r, msg) ==
    /\ traces' = SetState(traces, Dispatch(traces, r, msg))
    /\ traceRun' = SetState(traceRun, traceRun \o PerEntry(msg, r))
    /\ arrived' = SetState(arrived, arrived \o PerEntry(msg, msg))
    /\ IF msg.event = "summary"
       THEN /\ esRef' = NoRun
            /\ runs' = [runs EXCEPT ![r].es = "closed", ![r].closes = @ + 1, ![r].pc = "poll", ![r].i = 0,
                                    ![r].polls = @ + 1, ![r].loops = @ + 1]
       ELSE UNCHANGED <<esRef, runs>>
    /\ UNCHANGED <<task, loading, resp, error, runId, streaming,
                   nruns, submits, mounted, respRun>>
    /\ UNCHANGED <<agents, settings>>

\* The dispatch of a ready, start, log, error or summary message: the
\* listener of that name calls addTrace once, and for a message named error
\* es.onerror calls it once more.
onMessage(r, msg) ==
    /\ traces' = SetState(traces, Dispatch(traces, r, msg))
    /\ traceRun' = SetState(traceRun, traceRun \o PerEntry(msg, r))
    /\ arrived' = SetState(arrived, arrived \o PerEntry(msg, msg))
    /\ UNCHANGED <<task, loading, resp, error, runId, streaming, esRef,
                   runs, nruns, submits, mounted, respRun>>
    /\ UNCHANGED <<agents, settings>>

\* A done listener that leaves the EventSource open.
onDoneKeepsStreamOpen(r, msg) ==
    /\ traces' = SetState(traces, addTrace(traces, TraceOf(r, msg)))
    /\ traceRun' = SetState(traceRun, Append(traceRun, r))
    /\ arrived' = SetState(arrived, Append(arrived, msg))
    /\ esRef' = NoRun
    /\ runs' = [runs EXCEPT ![r].pc = "poll", ![r].i = 0,
                            ![r].polls = @ + 1, ![r].loops = @ + 1]
    /\ UNCHANGED <<task, loading, resp, error, runId, streaming,
                   nruns, submits, mounted, respRun>>
    /\ UNCHANGED <<agents, settings>>

\* A done listener that closes the EventSource and leaves it in the slot.
onDoneKeepsSlot(r, msg) ==
    /\ traces' = SetState(traces, addTrace(traces, TraceOf(r, msg)))
    /\ traceRun' = SetState(traceRun, Append(traceRun, r))
    /\ arrived' = SetState(arrived, Append(arrived, msg))
    /\ runs' = [runs EXCEPT ![r].es = "closed", ![r].closes = @ + 1,
                            ![r].pc = "poll", ![r].i = 0,
                            ![r].polls = @ + 1, ![r].loops = @ + 1]
    /\ UNCHANGED <<task, loading, resp, error, runId, streaming, esRef,
                   nruns, submits, mounted, respRun>>
    /\ UNCHANGED <<agents, settings>>

\* A done listener that does not await fetchFinal: its finally runs at once.
onDoneNoAwait(r, msg) ==
    /\ traces' = SetState(traces, addTrace(traces, TraceOf(r, msg)))
    /\ traceRun' = SetState(traceRun, Append(traceRun, r))
    /\ arrived' = SetState(arrived, Append(arrived, msg))
    /\ esRef' = NoRun
    /\ loading' = SetState(loading, FALSE)
    /\ streaming' = SetState(streaming, FALSE)
    /\ runs' = [runs EXCEPT ![r].es = "closed", ![r].closes = @ + 1,
                            ![r].pc = "poll", ![r].i = 0,
                            ![r].polls = @ + 1, ![r].loops = @ + 1]
    /\ UNCHANGED <<task, resp, error, runId, nruns, submits, mounted, respRun>>
    /\ UNCHANGED <<agents, settings>>

\* The done listener up to the first await of fetchFinal: addTrace, es.close(),
\* esRef.current = null, and the first GET api/result/{run_id}.
onDone(r, msg) ==
    /\ traces' = SetState(traces, addTrace(traces, TraceOf(r, msg)))
    /\ traceRun' = SetState(traceRun, Append(traceRun, r))
    /\ arrived' = SetState(arrived, Append(arrived, msg))
    /\ esRef' = NoRun
    /\ runs' = [runs EXCEPT ![r].es = "closed", ![r].closes = @ + 1, ![r].pc = "poll", ![r].i = 0,
                            ![r].polls = @ + 1, ![r].loops = @ + 1]
    /\ UNCHANGED <<task, loading, resp, error, runId, streaming,
                   nruns, submits, mounted, respRun>>
    /\ UNCHANGED <<agents, settings>>

\* Listeners that are still called after es.close().
StreamEmitAfterClose(r, msg) ==
    /\ runs[r].es # "none"
    /\ msg.event = "done" => doneSent[r] < MaxDone
    /\ doneSent' = IF msg.event = "done" THEN [doneSent EXCEPT ![r] = @ + 1]
                   ELSE doneSent
    /\ Len(traces) + Len(PerEntry(msg, r)) <= MaxTrace
    /\ IF msg.event = "done" THEN onDone(r, msg) ELSE onMessage(r, msg)
    /\ UNCHANGED <<agents, settings>>

\* The service puts a message on the stream of run r.  An EventSource
\* dispatches a message to its listeners only while it is not closed.
StreamEmit(r, msg) ==
    /\ runs[r].es # "none"
    /\ msg.event = "done" => doneSent[r] < MaxDone
    /\ doneSent' = IF msg.event = "done" THEN [doneSent EXCEPT ![r] = @ + 1]
                   ELSE doneSent
    /\ IF runs[r].es = "open"
       THEN /\ Len(traces) + Len(PerEntry(msg, r)) <= MaxTrace
            /\ IF msg.event = "done" THEN onDone(r, msg) ELSE onMessage(r, msg)
       ELSE UNCHANGED <<task, loading, resp, error, runId, streaming, traces,
                        esRef, runs, nruns, submits, mounted, traceRun, arrived,
                        respRun>>
    /\ UNCHANGED <<agents, settings>>

\* The connection of the stream fails: the native error event reaches the
\* listener registered for 'error' first and es.onerror second.  The browser
\* then either reconnects (the EventSource stays usable) or gives up
\* (readyState CLOSED).
StreamFail(r, fatal) ==
    /\ runs[r].es = "open"
    /\ Len(traces) + Len(PerEntry(NativeError, r)) <= MaxTrace
    /\ traces' = SetState(traces, Dispatch(traces, r, NativeError))
    /\ traceRun' = SetState(traceRun, traceRun \o PerEntry(NativeError, r))
    /\ arrived' = SetState(arrived, arrived \o PerEntry(NativeError, NativeError))
    /\ runs' = IF fatal THEN [runs EXCEPT ![r].es = "closed"] ELSE runs
    /\ UNCHANGED <<task, loading, resp, error, runId, streaming, esRef,
                   nruns, submits, doneSent, mounted, respRun>>
    /\ UNCHANGED <<agents, settings>>

\* ------------------------------------------------------------ fetchFinal
\* A poll loop that also retries on a failure status.
NotReadyOrFailed(rsp) == rsp.status = 202 \/ rsp.status >= 300

\* if (r.status === 202)
NotReady(rsp) == rsp.status = 202

\* A loop without a budget: for (;;)
LoopContinuesForever(i) == TRUE

\* A loop condition that is off by one.
LoopContinuesOffByOne(i) == i <= PollBudget

\* The loop condition i < 120
LoopContinues(i) == i < PollBudget

\* A fetchFinal without the wait: after a not-ready answer it issues the next
\* request at once.
PollResponseNoWait(r, rsp) ==
    /\ runs[r].pc = "poll"
    /\ IF NotReady(rsp)
       THEN /\ runs' = [runs EXCEPT ![r].last = rsp, ![r].notReady = @ + 1,
                                    ![r].i = @ + 1, ![r].polls = @ + 1]
            /\ UNCHANGED <<error, loading, streaming>>
       ELSE IF HeadersThrown(rsp) # Null
       THEN /\ error' = SetState(error, OrElse(HeadersThrown(rsp), "Failed to fetch final result"))
            /\ loading' = SetState(loading, FALSE)
            /\ streaming' = SetState(streaming, FALSE)
            /\ runs' = [runs EXCEPT ![r].pc = "end", ![r].last = rsp, ![r].out = "error"]
       ELSE /\ runs' = [runs EXCEPT ![r].pc = "pollBody", ![r].last = rsp]
            /\ UNCHANGED <<error, loading, streaming>>
    /\ UNCHANGED <<resp, respRun>>
    /\ UNCHANGED <<task, runId, traces, esRef, nruns, submits, doneSent, mounted,
                   traceRun, arrived>>
    /\ UNCHANGED <<agents, settings>>

\* fetchFinal resumed after `await fetch(api/result/{id})`: the 202 test and
\* the wait, the ok test and the throw (with the catch and finally of the
\* done listener that awaits fetchFinal), or r.json() called and awaited
\* (the body is still being read).  last keeps the response.
PollResponse(r, rsp) ==
    /\ runs[r].pc = "poll"
    /\ IF NotReady(rsp)
       THEN /\ runs' = [runs EXCEPT ![r].pc = "wait", ![r].last = rsp,
                                    ![r].notReady = @ + 1]
            /\ UNCHANGED <<error, loading, streaming>>
       ELSE IF HeadersThrown(rsp) # Null
       THEN /\ error' = SetState(error, OrElse(HeadersThrown(rsp), "Failed to fetch final result"))
            /\ loading' = SetState(loading, FALSE)
            /\ streaming' = SetState(streaming, FALSE)
            /\ runs' = [runs EXCEPT ![r].pc = "end", ![r].last = rsp, ![r].out = "error"]
       ELSE /\ runs' = [runs EXCEPT ![r].pc = "pollBody", ![r].last = rsp]
            /\ UNCHANGED <<error, loading, streaming>>
    /\ UNCHANGED <<resp, respRun>>
    /\ UNCHANGED <<task, runId, traces, esRef, nruns, submits, doneSent, mounted,
                   traceRun, arrived>>
    /\ UNCHANGED <<agents, settings>>

\* A fetchFinal whose success branch lacks the return: the loop goes on.
PollBodyNoReturn(r) ==
    /\ runs[r].pc = "pollBody"
    /\ LET rsp == runs[r].last IN
       IF BodyThrown(rsp) # Null
       THEN /\ error' = SetState(error, OrElse(BodyThrown(rsp), "Failed to fetch final result"))
            /\ loading' = SetState(loading, FALSE)
            /\ streaming' = SetState(streaming, FALSE)
            /\ runs' = [runs EXCEPT ![r].pc = "end", ![r].out = "error"]
            /\ UNCHANGED <<resp, respRun>>
       ELSE /\ resp' = SetState(resp, <<JSONParse(rsp.body).value>>)
            /\ respRun' = SetState(respRun, r)
            /\ runs' = [runs EXCEPT ![r].pc = "poll", ![r].i = @ + 1, ![r].polls = @ + 1]
            /\ UNCHANGED <<error, loading, streaming>>
    /\ UNCHANGED <<task, runId, traces, esRef, nruns, submits, doneSent, mounted,
                   traceRun, arrived>>
    /\ UNCHANGED <<agents, settings>>

\* A fetchFinal that returns on success without recording the result.
PollBodyDropsResult(r) ==
    /\ runs[r].pc = "pollBody"
    /\ LET rsp == runs[r].last IN
       IF BodyThrown(rsp) # Null
       THEN /\ error' = SetState(error, OrElse(BodyThrown(rsp), "Failed to fetch final result"))
            /\ loading' = SetState(loading, FALSE)
            /\ streaming' = SetState(streaming, FALSE)
            /\ runs' = [runs EXCEPT ![r].pc = "end", ![r].out = "error"]
            /\ UNCHANGED <<resp, respRun>>
       ELSE /\ loading' = SetState(loading, FALSE)
            /\ streaming' = SetState(streaming, FALSE)
            /\ runs' = [runs EXCEPT ![r].pc = "end", ![r].out = "ok"]
            /\ UNCHANGED <<resp, respRun, error>>
    /\ UNCHANGED <<task, runId, traces, esRef, nruns, submits, doneSent, mounted,
                   traceRun, arrived>>
    /\ UNCHANGED <<agents, settings>>

\* fetchFinal resumed after `await r.json()`: setResp(data) and return, or
\* the throw when the body is not JSON; then the catch and finally of the
\* done listener.
PollBody(r) ==
    /\ runs[r].pc = "pollBody"
    /\ LET rsp == runs[r].last IN
       IF BodyThrown(rsp) # Null
       THEN /\ error' = SetState(error, OrElse(BodyThrown(rsp), "Failed to fetch final result"))
            /\ loading' = SetState(loading, FALSE)
            /\ streaming' = SetState(streaming, FALSE)
            /\ runs' = [runs EXCEPT ![r].pc = "end", ![r].out = "error"]
            /\ UNCHANGED <<resp, respRun>>
       ELSE /\ resp' = SetState(resp, <<JSONParse(rsp.body).value>>)
            /\ respRun' = SetState(respRun, r)
            /\ loading' = SetState(loading, FALSE)
            /\ streaming' = SetState(streaming, FALSE)
            /\ runs' = [runs EXCEPT ![r].pc = "end", ![r].out = "ok"]
            /\ UNCHANGED error
    /\ UNCHANGED <<task, runId, traces, esRef, nruns, submits, doneSent, mounted,
                   traceRun, arrived>>
    /\ UNCHANGED <<agents, settings>>

\* The one-second timer of fetchFinal fires: i++, then the next GET, or the
\* timeout thrown once the loop is over.
TimerFire(r) ==
    /\ runs[r].pc = "wait"
    /\ IF LoopContinues(runs[r].i + 1)
       THEN /\ runs' = [runs EXCEPT ![r].pc = "poll", ![r].i = @ + 1, ![r].polls = @ + 1]
            /\ UNCHANGED <<error, loading, streaming>>
       ELSE /\ error' = SetState(error, OrElse(TimeoutMessage, "Failed to fetch final result"))
            /\ loading' = SetState(loading, FALSE)
            /\ streaming' = SetState(streaming, FALSE)
            /\ runs' = [runs EXCEPT ![r].pc = "end", ![r].i = @ + 1, ![r].out = "error"]
    /\ UNCHANGED <<task, resp, runId, traces, esRef, nruns, submits, doneSent,
                   mounted, traceRun, arrived, respRun>>
    /\ UNCHANGED <<agents, settings>>

\* ------------------------------------------------------------ specifications
\* The operator's controls other than Run.
Controls ==
    \/ \E t \in TaskTexts : SetTask(t)
    \/ clearTraces

\* The body of a response has been read: the await of json() resumes.
SubmitBodyRead == \E r \in Runs : SubmitBody(r)

PollBodyRead == \E r \in Runs : PollBody(r)

\* The remote service and the browser: responses, stream messages chosen
\* from msgs, connection failures, timers.  The service answers not-ready
\* only while the loop counter is below cap.
Service(msgs, cap) ==
    \/ \E r \in Runs : \E rsp \in SubmitResponses(r) : SubmitResponse(r, rsp)
    \/ SubmitBodyRead
    \/ \E r \in Runs : \E msg \in msgs : StreamEmit(r, msg)
    \/ \E r \in Runs : \E fatal \in BOOLEAN : StreamFail(r, fatal)
    \/ \E r \in Runs : \E rsp \in PollResponses :
          /\ NotReady(rsp) => runs[r].i < cap
          /\ PollResponse(r, rsp)
    \/ PollBodyRead
    \/ \E r \in Runs : TimerFire(r)

\* The console as the operator drives it: runs start from the Run button.
Next ==
    \/ ClickRun
    \/ Controls
    \/ Service(StreamMessages, MaxNotReady)

Spec == Init /\ [][Next]_vars

\* The messages of a stream that matter to the life of a run.
CoreMessages == {[event |-> "log", data |-> LogData], [event |-> "done", data |-> StatusData]}

\* The retry budget of the poll loop: the service may answer not-ready to
\* every poll, and the stream carries done messages only.
DoneMessages == {m \in StreamMessages : m.event = "done"}

NextBudget ==
    \/ ClickRun
    \/ Controls
    \/ Service(DoneMessages, PollBudget)

SpecBudget == Init /\ [][NextBudget]_vars

\* The console with its end of life: the component may unmount in any phase,
\* after which the operator has no controls while the service, the streams
\* and the timers go on.
NextLifecycle ==
    \/ ClickRun
    \/ Controls
    \/ Service(CoreMessages, MaxNotReady)
    \/ Unmount

SpecLifecycle == Init /\ [][NextLifecycle]_vars

\* The console with a service that answers: every submit request and every
\* poll request eventually receives an answer, whatever it is, and every
\* timer fires.  Nothing is assumed of the stream: the service may omit or
\* repeat its messages and the connection may fail.
SubmitAnswer == \E r \in Runs : \E rsp \in SubmitResponses(r) : SubmitResponse(r, rsp)

PollAnswer == \E r \in Runs : \E rsp \in PollResponses : PollResponse(r, rsp)

TimerEnd == \E r \in Runs : TimerFire(r)

\* The stream carries the done message; the operator uses the task box and Run.
NextAnswered ==
    \/ ClickRun
    \/ \E t \in TaskTexts : SetTask(t)
    \/ Service({[event |-> "done", data |-> StatusData]}, PollBudget)

SpecAnswered ==
    /\ Init /\ [][NextAnswered]_vars
    /\ WF_vars(SubmitAnswer) /\ WF_vars(PollAnswer) /\ WF_vars(TimerEnd)
    /\ WF_vars(SubmitBodyRead) /\ WF_vars(PollBodyRead)

\* A run of a well-behaved service: the submit succeeds, the stream delivers
\* ready, start, log and done in that order, and the poll answers a result,
\* after at most MaxNotReady not-ready answers.  Every answer and every
\* message of it eventually comes.
Script ==
    <<[event |-> "ready", data |-> ""], [event |-> "start", data |-> StartData],
      [event |-> "log", data |-> LogData], [event |-> "done", data |-> StatusData]>>

\* The stream of run r delivers the next message of the script.
ScenarioEmit(r) ==
    /\ runs[r].es = "open"
    /\ Len(arrived) < Len(Script)
    /\ LET msg == Script[Len(arrived) + 1] IN
       /\ doneSent' = IF msg.event = "done" THEN [doneSent EXCEPT ![r] = @ + 1]
                      ELSE doneSent
       /\ IF msg.event = "done" THEN onDone(r, msg) ELSE onMessage(r, msg)

ScenarioSubmit == \E r \in Runs : SubmitResponse(r, [status |-> 200, body |-> RunIdBody(r)])

ScenarioStream == \E r \in Runs : ScenarioEmit(r)

ScenarioPoll ==
    \E r \in Runs : \E rsp \in {a \in PollResponses : NotReady(a) \/ Thrown(a) = Null} :
        /\ NotReady(rsp) => runs[r].i < MaxNotReady
        /\ PollResponse(r, rsp)

ScenarioTimer == \E r \in Runs : TimerFire(r)

NextScenario ==
    \/ ClickRun
    \/ \E t \in TaskTexts : SetTask(t)
    \/ ScenarioSubmit
    \/ SubmitBodyRead
    \/ ScenarioStream
    \/ ScenarioPoll
    \/ PollBodyRead
    \/ ScenarioTimer

SpecScenario ==
    /\ Init /\ [][NextScenario]_vars
    /\ WF_vars(ScenarioSubmit) /\ WF_vars(ScenarioStream)
    /\ WF_vars(ScenarioPoll) /\ WF_vars(ScenarioTimer)
    /\ WF_vars(SubmitBodyRead) /\ WF_vars(PollBodyRead)

\* The configuration panel with add and remove only: the operator edits the
\* roster, picks the entry point, types a task and presses Run; the service
\* answers the submit request.
NextAddRemove ==
    \/ ClickRun
    \/ \E t \in TaskTexts : SetTask(t)
    \/ addAgent
    \/ \E idx \in 1..MaxAgents : removeAgent(idx)
    \/ \E n \in {entryOptions[k] : k \in DOMAIN entryOptions} : SelectEntry(n)
    \/ SubmitAnswer
    \/ SubmitBodyRead

SpecAddRemove == Init /\ [][NextAddRemove]_vars

\* The configuration panel with the Name field of the agent cards as well.
NextRoster ==
    \/ NextAddRemove
    \/ \E idx \in 1..MaxAgents : \E patch \in Patches : updateAgent(idx, patch)

SpecRoster == Init /\ [][NextRoster]_vars

\* The Entry & Limits panel: the operator edits the limits, picks the entry
\* point, types a task and presses Run; the service answers the submit
\* request.
NextLimits ==
    \/ ClickRun
    \/ \E t \in TaskTexts : SetTask(t)
    \/ \E n \in {entryOptions[k] : k \in DOMAIN entryOptions} : SelectEntry(n)
    \/ \E field \in LimitFields : \E text \in NumberTexts : SetLimit(field, text)
    \/ SubmitAnswer
    \/ SubmitBodyRead

SpecLimits == Init /\ [][NextLimits]_vars

\* The first number field of the panel given every shape of text: the
\* operator types into Max handoffs, types a task and presses Run; the
\* service answers the submit request.
NextLiterals ==
    \/ ClickRun
    \/ \E t \in TaskTexts : SetTask(t)
    \/ \E text \in LiteralTexts : SetLimit("max_handoffs", text)
    \/ SubmitAnswer
    \/ SubmitBodyRead

SpecLiterals == Init /\ [][NextLiterals]_vars

\* ------------------------------------------------------------ properties
\* The phase of the orchestrator as the component's cells show it: a run is
\* in progress while loading or streaming is set (Streaming while a stream
\* is in the slot, Submitting before the handle is known, AwaitingResult
\* after); otherwise Failed when an error is recorded, Completed when a
\* RunResult is, Idle when neither.
Phase ==
    IF loading \/ streaming
    THEN IF esRef # NoRun THEN "Streaming"
         ELSE IF runId = Null THEN "Submitting" ELSE "AwaitingResult"
    ELSE IF error # Null THEN "Failed"
         ELSE IF resp # <<>> THEN "Completed" ELSE "Idle"

\* A run is live while its stream subscription is open or its poll loop has
\* a request or a timer pending.
StreamOpen(r) == runs[r].es = "open"
PollLive(r) == runs[r].pc \in {"poll", "pollBody", "wait"}
Live(r) == StreamOpen(r) \/ PollLive(r)

\* The program state a stream message can touch.
program == <<task, loading, resp, error, runId, streaming, traces, esRef,
             runs, nruns, submits>>

C3_SingleLiveHandle == \A a, b \in Runs : Live(a) /\ Live(b) => a = b

\* C3 witness: a second run is polling after a first run has ended.
C3_Witness == nruns = 2 /\ runs[1].pc = "end" /\ PollLive(2)

\* C4: the RunResult is non-null only if the done listener of the current
\* run has run and the poll that set it was issued for the current handle;
\* while the current run is submitting or streaming the RunResult is null.
C4_ResultOnlyAfterDone ==
    /\ resp # <<>> =>
          /\ respRun = nruns
          /\ runs[respRun].loops >= 1
          /\ runs[respRun].run_id = runId
          /\ runs[respRun].out = "ok"
    /\ nruns > 0 /\ runs[nruns].pc \in {"submit", "submitBody", "stream"} => resp = <<>>

\* C4 witness: the second run holds a result, the first run's having been cleared.
C4_Witness == nruns = 2 /\ resp # <<>> /\ runs[1].pc = "end"

\* C5: however many done messages the service puts on a stream, fetchFinal is
\* called at most once for the run, and a done message after the first one
\* changes nothing in the program.
C5_DoneHandledOnce ==
    /\ [](\A r \in Runs : runs[r].loops <= 1)
    /\ [][\A r \in Runs :
            (doneSent[r] >= 1 /\ doneSent'[r] = doneSent[r] + 1) => UNCHANGED program]_vars

\* C5 witness: two done messages were sent on a stream and one poll loop ran.
C5_Witness == \E r \in Runs : doneSent[r] = 2 /\ runs[r].loops = 1 /\ PollLive(r)
\* C6: when the poll endpoint answers not-ready k times (k below the budget)
\* and then success with body R, the loop has issued exactly k + 1 requests,
\* the RunResult is R, and nothing of the loop is pending or issued afterwards.
C6_PollStopsAtSuccess ==
    /\ [](\A r \in Runs : respRun = r =>
            /\ runs[r].pc = "end"
            /\ runs[r].notReady < PollBudget
            /\ runs[r].polls = runs[r].notReady + 1
            /\ runs[r].last.status = 200
            /\ resp = <<JSONParse(runs[r].last.body).value>>)
    /\ [][\A r \in Runs : runs[r].pc = "end" => runs'[r].polls <= runs[r].polls]_vars

\* C6 witness: success after 119 not-ready answers, at the 120th request.
C6_Witness ==
    \E r \in Runs : /\ respRun = r
                    /\ runs[r].notReady = PollBudget - 1
                    /\ runs[r].polls = PollBudget
                    /\ resp = <<JSONParse(ResultBodyA).value>>

\* C7: when every poll is answered not-ready, the loop issues exactly
\* PollBudget requests and never one more; the step that ends it records the
\* timeout error, leaves the RunResult null, clears loading and streaming and
\* leaves no request or timer of the loop pending.
C7_BudgetExhausted ==
    /\ [](\A r \in Runs :
            /\ runs[r].polls <= PollBudget
            /\ runs[r].notReady = PollBudget =>
                  runs[r].pc \in {"wait", "end"} /\ runs[r].polls = PollBudget)
    /\ [][\A r \in Runs :
            (runs[r].pc = "wait" /\ runs[r].notReady = PollBudget /\ runs'[r].pc # "wait") =>
                /\ runs'[r].pc = "end"
                /\ runs'[r].polls = PollBudget
                /\ error' = TimeoutMessage
                /\ resp' = <<>>
                /\ ~loading' /\ ~streaming']_vars

\* C7 witness: a run ended by the timeout after PollBudget not-ready answers.
C7_Witness ==
    \E r \in Runs : /\ runs[r].pc = "end"
                    /\ runs[r].notReady = PollBudget
                    /\ runs[r].polls = PollBudget
                    /\ error = TimeoutMessage
                    /\ resp = <<>>
                    /\ ~loading /\ ~streaming

\* C8: a poll answer that is neither 202 nor a success status ends the poll
\* loop in that step: no further request is issued for the run, the error is
\* recorded, loading and streaming are cleared and the RunResult stays null.
C8_FatalPollStatus ==
    [][\A r \in Runs :
        /\ (/\ runs[r].pc = "poll"
            /\ runs'[r].last # runs[r].last \/ runs'[r].pc # "poll"
            /\ runs'[r].last.status >= 100
            /\ runs'[r].last.status \notin 200..299) =>
                /\ runs'[r].pc = "end"
                /\ runs'[r].polls = runs[r].polls
                /\ error' = "HTTP " \o ToString(runs'[r].last.status)
                /\ resp' = <<>>
                /\ ~loading' /\ ~streaming'
        /\ runs[r].pc = "end" => runs'[r].pc = "end" /\ runs'[r].polls <= runs[r].polls]_vars

\* C8 witness: a poll loop ended by a 500 answer to its second request.
C8_Witness ==
    \E r \in Runs : /\ runs[r].pc = "end"
                    /\ runs[r].last.status = 500
                    /\ runs[r].polls = 2
                    /\ error = "HTTP 500"
                    /\ resp = <<>>
                    /\ ~loading /\ ~streaming

\* A text of white space only (the empty text included): no character of it
\* is anything but white space or a line terminator.
Blank(t) == \A k \in 1..Len(t) : t[k] \in WhiteSpace \/ t[k] \in LineTerminator

\* C9: a start with an empty or whitespace-only task records the validation
\* error and issues no network call: no submit request, no stream, no poll;
\* every submit request carries a non-blank task.
C9_BlankTaskNoNetwork ==
    /\ [](/\ submits = nruns
          /\ \A r \in Runs : runs[r].pc \notin {"none", "end"} => ~Blank(runs[r].task))
    /\ [][(ClickRun /\ Blank(task)) =>
            /\ error' = ValidationMessage
            /\ UNCHANGED <<submits, nruns, runs, esRef, doneSent>>]_vars

\* C9 witness: a whitespace-only task was rejected before any request.
C9_Witness ==
    /\ task # <<>> /\ Blank(task)
    /\ \E k \in DOMAIN task : task[k] \in LineTerminator
    /\ error = ValidationMessage
    /\ submits = 0
    /\ \A r \in Runs : runs[r].pc = "none"

\* C10: a RunResult and an error are never visible at the same time.
C10_NeverResultAndError == ~(resp # <<>> /\ error # Null)

\* A submit answer that is a failure: a rejected fetch or a non-success status.
SubmitFailed(rsp) == rsp.status = 0 \/ (rsp.status >= 100 /\ rsp.status \notin 200..299)

\* C11: when the submit request fails (transport exception or non-success
\* status) the run ends in that step with the error recorded and loading and
\* streaming cleared; for that attempt no handle is set, no stream is opened
\* and no poll is issued, and the submit is not issued again: the number of
\* submit requests grows only with a new start.
C11_SubmitFailureTerminal ==
    /\ [](\A r \in Runs : runs[r].pc = "end" /\ SubmitFailed(runs[r].sub) =>
            /\ runs[r].run_id = Null
            /\ runs[r].es = "none"
            /\ runs[r].polls = 0 /\ runs[r].loops = 0)
    /\ [][/\ submits' # submits => (submits' = submits + 1 /\ nruns' = nruns + 1)
          /\ \A r \in Runs :
                (runs[r].pc = "submit" /\ runs'[r] # runs[r] /\ SubmitFailed(runs'[r].sub)) =>
                    /\ runs'[r].pc = "end"
                    /\ error' = IF runs'[r].sub.status = 0 THEN FetchRejectMessage
                                 ELSE "HTTP " \o ToString(runs'[r].sub.status)
                    /\ ~loading' /\ ~streaming'
                    /\ runId' = Null /\ esRef' = NoRun
                    /\ submits' = submits]_vars

\* C11 witness: the second attempt, made by a new start, failed with a
\* status 500 and stands at its end without handle, stream or poll.
C11_Witness ==
    /\ nruns = 2 /\ submits = 2
    /\ runs[2].pc = "end" /\ runs[2].sub.status = 500
    /\ error = "HTTP 500" /\ runId = Null /\ esRef = NoRun
    /\ ~loading /\ ~streaming

\* C12: a submit answer with a success status whose body carries no run id
\* (the body is not JSON, or is an object without run_id) fails the run: the
\* run ends with an error, no handle is recorded and no stream is opened
\* (once the body of the answer has been read).
C12_MissingRunIdFails ==
    \A r \in Runs :
        (/\ runs[r].sub.status \in 200..299
         /\ runs[r].pc # "submitBody"
         /\ Get(safeParse(runs[r].sub.body), "run_id") = Undefined) =>
            /\ runs[r].pc = "end" /\ runs[r].out = "error"
            /\ runs[r].run_id = Null
            /\ runs[r].es = "none"
            /\ error # Null

\* The current run is active: submitting, streaming or awaiting its result.
Active ==
    nruns > 0 /\ runs[nruns].pc \in {"submit", "submitBody", "stream", "poll", "pollBody", "wait"}

\* C13: while a run is active no step makes the TraceLog shorter, the Clear
\* control included; only the start of a new run empties it.
C13_TraceNeverShrinks ==
    [][Active => (Len(traces') >= Len(traces) \/ nruns' = nruns + 1)]_vars

\* s is an initial segment of t.
IsPrefix(s, t) == Len(s) <= Len(t) /\ SubSeq(t, 1, Len(s)) = s

\* C14: the TraceLog holds the events in the order of their delivery: its
\* entries were built from the deliveries since the log was last emptied, in
\* that order (an event named error gives the entry of its listener and then
\* the client-error entry of es.onerror), and a step either empties the log
\* or leaves every earlier entry in its place and puts the new ones at the
\* end.
C14_AppendOnlyInOrder ==
    /\ [](/\ Len(traces) = Len(arrived)
          /\ \A k \in 1..Len(traces) :
                \/ traces[k].type = arrived[k].event
                \/ ReachesOnError(arrived[k]) /\ traces[k] = ClientError)
    /\ [][\/ traces' = <<>>
          \/ IsPrefix(traces, traces') /\ IsPrefix(arrived, arrived')]_vars

\* C14 witness: a log message was delivered before a start message, and the
\* TraceLog holds them in that order.
C14_Witness ==
    /\ Len(traces) = 2
    /\ arrived[1].event = "log" /\ arrived[2].event = "start"
    /\ traces[1].type = "log" /\ traces[2].type = "start"

\* The step is the delivery of a connection error of the stream (the native
\* error event of the EventSource).
TransportErrorStep ==
    /\ Len(arrived') > Len(arrived)
    /\ arrived'[Len(arrived')] = NativeError

\* C15: a connection error of the stream while Streaming appends a
\* client-error event, one entry, and changes nothing else: the flags of the
\* Streaming phase stay set, the stream stays attached and in the slot, no
\* poll is started, and error and RunResult are as before.
C15_StreamErrorInformational ==
    [][TransportErrorStep =>
        /\ Len(traces') = Len(traces) + 1
        /\ traces' = Append(traces, ClientError)
        /\ UNCHANGED <<task, loading, streaming, resp, error, runId, esRef, nruns, submits>>
        /\ loading /\ streaming
        /\ esRef # NoRun /\ runs[esRef].pc = "stream"
        /\ runs' = runs]_vars

\* The step is the delivery of a message of the service named by one of es.
MessageStep(es) ==
    /\ Len(arrived') > Len(arrived)
    /\ arrived'[Len(arrived')] \in StreamMessages
    /\ arrived'[Len(arrived')].event \in es

\* C16: a ready, start, log or error message of the service only appends one
\* event of its type to the TraceLog: flags, handle, RunResult, error, the
\* stream slot and every run's position and stream are as before, so the run
\* is not halted.
C16_MessagesOnlyAppend ==
    [][MessageStep({"ready", "start", "log", "error"}) =>
            /\ Len(traces') = Len(traces) + 1
            /\ IsPrefix(traces, traces')
            /\ traces'[Len(traces')].type = arrived'[Len(arrived')].event
            /\ UNCHANGED <<task, loading, streaming, resp, error, runId, esRef,
                           runs, nruns, submits>>
            /\ loading /\ streaming /\ esRef # NoRun
            /\ runs[esRef].pc = "stream" /\ runs[esRef].es = "open"]_vars

\* A message of the service whose payload does not parse.
Unparsable(msg) == msg \in StreamMessages /\ safeParse(msg.data) = <<>>

\* The fields a listener reads from the payload are absent in the event e
\* (the level and the error text take their defaults).
FieldsAbsent(e) ==
    /\ e.type = "start" => e.task = Undefined
    /\ e.type = "log" => e.message = Undefined /\ e.level = "LOG"
    /\ e.type = "error" => e.message = "server error"
    /\ e.type \in {"done", "summary"} =>
          /\ e.status = Undefined /\ e.has_output = Undefined
          /\ e.output_preview = Undefined /\ e.transcript_preview = Undefined

\* C17: a message whose payload does not parse still appends one event of its
\* type, with the payload's fields absent; unless it is a done message the
\* stream stays open and in the slot, so later messages are processed; a done
\* message with such a payload still closes the stream and issues the first
\* poll request.
C17_UnparsablePayload ==
    /\ [](\A k \in 1..Len(traces) : Unparsable(arrived[k]) =>
            traces[k].type = arrived[k].event /\ FieldsAbsent(traces[k]))
    /\ [][(Len(arrived') > Len(arrived) /\ Unparsable(arrived'[Len(arrived')])) =>
            LET r == traceRun'[Len(traceRun')] IN
            /\ Len(traces') = Len(traces) + 1 /\ IsPrefix(traces, traces')
            /\ UNCHANGED <<loading, streaming, resp, error, runId>>
            /\ IF arrived'[Len(arrived')].event = "done"
               THEN /\ runs'[r].es = "closed" /\ esRef' = NoRun
                    /\ runs'[r].pc = "poll"
                    /\ runs'[r].polls = 1 /\ runs'[r].loops = 1
               ELSE /\ runs'[r].es = "open" /\ esRef' = r
                    /\ UNCHANGED runs]_vars

\* C18: once the component has unmounted no stream subscription is open and
\* the stream slot is empty, in whatever phase the unmount happened; a submit
\* answer that arrives afterwards opens no stream.
C18_NoStreamAfterUnmount ==
    ~mounted => (esRef = NoRun /\ \A r \in Runs : runs[r].es # "open")

\* C19: after an unmount during a poll loop the loop is over: its later
\* answers set neither RunResult nor error, no further poll request is issued
\* and no further wait timer is started.
C19_PollAbandonedAtUnmount ==
    [][\A r \in Runs : runs[r].orphaned =>
          /\ resp' = resp /\ error' = error
          /\ runs'[r].polls = runs[r].polls
          /\ runs'[r].pc = "wait" => runs[r].pc = "wait"]_vars

\* C20: detaching is idempotent: in every state, detaching twice gives what
\* detaching once gives, namely an empty slot, the slot's stream closed and
\* every other run untouched; an unmount that finds the slot already empty
\* (detached before, or no stream ever opened) changes neither slot nor runs.
C20_DetachIdempotent ==
    /\ [](LET once == Detach(esRef, runs)
              twice == Detach(once.slot, once.rs)
          IN  /\ twice = once
              /\ once.slot = NoRun
              /\ \A r \in Runs : IF r = esRef THEN once.rs[r].es = "closed"
                                  ELSE once.rs[r] = runs[r])
    /\ [][(mounted /\ ~mounted') =>
            /\ esRef' = NoRun
            /\ esRef # NoRun => runs'[esRef].es = "closed"
            /\ esRef = NoRun => \A r \in Runs : runs'[r].es = runs[r].es]_vars

\* C20 witness: a submit failed, so no stream was ever opened and the catch
\* block detached; the unmount then detached again.
C20_Witness ==
    /\ ~mounted /\ esRef = NoRun
    /\ \E r \in Runs : /\ runs[r].pc = "end" /\ SubmitFailed(runs[r].sub)
                        /\ runs[r].es = "none"

\* The four events of the script as the listeners of run r record them.
ScriptTrace(r) ==
    <<[type |-> "ready", message |-> "stream ready", run_id |-> Handle(r)],
      [type |-> "start", run_id |-> Handle(r), task |-> "T"],
      [type |-> "log", level |-> "INFO", message |-> "handing off"],
      [type |-> "done", status |-> "COMPLETED", has_output |-> "true",
       output_preview |-> Undefined, transcript_preview |-> Undefined]>>

\* C21: a run whose submit succeeds, whose stream delivers ready, start, log,
\* done in that order and whose poll answers the result R goes from
\* Submitting to Streaming to AwaitingResult, in that order, and eventually
\* ends; the step that ends it leaves the phase Completed, the RunResult R,
\* no error, the stream closed and out of the slot, and the TraceLog holding
\* exactly the four events in the order of delivery.
C21_HappyPath ==
    /\ [][/\ Phase = "Submitting" => Phase' \in {"Submitting", "Streaming"}
          /\ Phase = "Streaming" => Phase' \in {"Streaming", "AwaitingResult"}
          /\ Phase = "AwaitingResult" => Phase' \in {"AwaitingResult", "Completed"}
          /\ \A r \in Runs : (runs[r].pc # "end" /\ runs'[r].pc = "end") =>
                /\ Phase = "AwaitingResult" /\ Phase' = "Completed"
                /\ runs'[r].last.status = 200
                /\ resp' = <<JSONParse(runs'[r].last.body).value>>
                /\ error' = Null
                /\ esRef' = NoRun /\ runs'[r].es = "closed"
                /\ traces' = ScriptTrace(r)]_vars
    /\ \A r \in Runs : (runs[r].pc = "submit") ~> (runs[r].pc = "end" /\ Phase = "Completed")

\* C21 witness: the run has ended Completed with the result of body A and the
\* four events in the TraceLog.
C21_Witness ==
    /\ Phase = "Completed" /\ nruns = 1 /\ runs[1].pc = "end"
    /\ resp = <<JSONParse(ResultBodyA).value>> /\ error = Null
    /\ esRef = NoRun /\ runs[1].es = "closed"
    /\ traces = ScriptTrace(1)

\* C22: a start with a non-blank task happens in Idle, Completed or Failed
\* and leaves the orchestrator Submitting with exactly one new submit request
\* out, the TraceLog empty and the previous RunResult, error and handle
\* cleared, the stream slot empty.
C22_StartResets ==
    [][nruns' = nruns + 1 =>
        /\ ~Blank(task)
        /\ Phase \in {"Idle", "Completed", "Failed"}
        /\ Phase' = "Submitting"
        /\ runs'[nruns'].pc = "submit" /\ submits' = submits + 1
        /\ traces' = <<>> /\ resp' = <<>> /\ error' = Null /\ runId' = Null
        /\ esRef' = NoRun
        /\ loading' /\ streaming']_vars

\* C22 witness: a second run has just been started after a first one ended;
\* nothing of the first is left.
C22_Witness ==
    /\ nruns = 2 /\ runs[1].pc = "end" /\ runs[2].pc = "submit"
    /\ Phase = "Submitting"
    /\ traces = <<>> /\ resp = <<>> /\ error = Null /\ runId = Null

\* C23: once the done listener of a run has run, and every poll request is
\* answered, the run issues at most PollBudget requests and eventually ends
\* with the orchestrator Completed or Failed and loading and streaming both
\* false, so that Run is enabled again.
C23_PollLoopTerminates ==
    /\ [](\A r \in Runs : runs[r].polls <= PollBudget)
    /\ \A r \in Runs :
          (runs[r].loops = 1 /\ PollLive(r)) ~>
              (/\ runs[r].pc = "end"
               /\ Phase \in {"Completed", "Failed"}
               /\ ~loading /\ ~streaming)

\* C23 witness: a run that was answered not-ready at its last request has
\* ended Failed with Run enabled.
C23_Witness ==
    \E r \in Runs :
        /\ runs[r].loops = 1 /\ runs[r].pc = "end"
        /\ runs[r].polls = PollBudget /\ runs[r].notReady = PollBudget
        /\ Phase = "Failed"
        /\ ~loading /\ ~streaming

\* C24: once set, the RunResult stays what it is until the next start: no
\* stream message, poll answer, timer or control other than a start with a
\* non-blank task changes or clears it.
C24_ResultImmutable ==
    [][(resp # <<>> /\ nruns' = nruns) => resp' = resp]_vars

\* C24 witness: the RunResult is still in place after the operator cleared
\* the TraceLog, changed the task and had a blank start rejected.
C24_Witness ==
    /\ resp = <<JSONParse(ResultBodyB).value>>
    /\ traces = <<>> /\ task = <<" ", "\t", "\n", "U+00A0">> /\ error = ValidationMessage
    /\ nruns > 0
    /\ runs[nruns].pc = "end" /\ runs[nruns].out = "ok"

\* C25: a start with an empty or whitespace-only task, which happens in Idle,
\* Completed or Failed, leaves the orchestrator Failed with the validation
\* message, a human-readable cause, recorded as the error.
C25_BlankStartFails ==
    [][(ClickRun /\ Blank(task)) =>
        /\ Phase \in {"Idle", "Completed", "Failed"}
        /\ Phase' = "Failed"
        /\ error' = "Please enter a task before running the swarm."
        /\ ~loading' /\ ~streaming']_vars

\* C25 witness: a blank start was rejected after a run had completed: the
\* validation message is the error next to that run's result.
C25_Witness ==
    /\ Blank(task) /\ Phase = "Failed"
    /\ \E k \in DOMAIN task : task[k] = "\t"
    /\ error = "Please enter a task before running the swarm."
    /\ nruns > 0
    /\ runs[nruns].pc = "end" /\ runs[nruns].out = "ok" /\ resp # <<>>

\* The step is the delivery of one message named e to its listener.
Delivered(e) ==
    /\ Len(arrived') = Len(arrived) + 1
    /\ arrived'[Len(arrived')].event = e

\* C26: a summary message only appends a summary event: the phase stays
\* Streaming, the stream stays open and in the slot and no poll is started;
\* the orchestrator leaves Streaming only by the delivery of a done message,
\* and then for AwaitingResult.
C26_SummaryNotTerminal ==
    [][/\ Delivered("summary") =>
            /\ Len(traces') = Len(traces) + 1 /\ IsPrefix(traces, traces')
            /\ traces'[Len(traces')].type = "summary"
            /\ Phase = "Streaming" /\ Phase' = "Streaming"
            /\ UNCHANGED <<task, loading, streaming, resp, error, runId, esRef,
                           runs, nruns, submits>>
            /\ runs[esRef].es = "open" /\ runs[esRef].polls = 0
       /\ (Phase = "Streaming" /\ Phase' # "Streaming") =>
            Delivered("done") /\ Phase' = "AwaitingResult"]_vars

\* C26 witness: a summary event is in the TraceLog, followed by a log event,
\* and the run is still Streaming with no poll issued.
C26_Witness ==
    /\ Len(traces) = 2 /\ traces[1].type = "summary" /\ traces[2].type = "log"
    /\ traces[1].status = "COMPLETED"
    /\ Phase = "Streaming" /\ esRef = nruns
    /\ runs[esRef].es = "open" /\ runs[esRef].pc = "stream" /\ runs[esRef].polls = 0

\* C27: the done listener closes the stream of its run and empties the slot
\* in the step that issues the first poll request; the program closes a
\* stream at most once; a run that is polling, has ended or has not started
\* has no open stream, and in AwaitingResult, Completed, Failed and Idle no
\* stream is open and the slot is empty.
C27_StreamClosedAtDone ==
    /\ [](/\ \A r \in Runs :
                /\ runs[r].closes <= 1
                /\ runs[r].polls >= 1 => (runs[r].es = "closed" /\ runs[r].closes = 1)
                /\ runs[r].pc \in {"none", "poll", "pollBody", "wait", "end"} => runs[r].es # "open"
          /\ Phase \in {"AwaitingResult", "Completed", "Failed", "Idle"} =>
                (esRef = NoRun /\ \A r \in Runs : runs[r].es # "open"))
    /\ [][Delivered("done") =>
            LET r == traceRun'[Len(traceRun')] IN
            /\ runs[r].es = "open" /\ runs[r].polls = 0 /\ runs[r].closes = 0
            /\ runs'[r].es = "closed" /\ runs'[r].closes = 1
            /\ runs'[r].polls = 1
            /\ esRef' = NoRun]_vars

\* C27 witness: a second run is awaiting its result with its stream closed
\* once and the slot empty.
C27_Witness ==
    /\ nruns = 2 /\ Phase = "AwaitingResult"
    /\ runs[2].pc = "wait" /\ runs[2].polls = 1
    /\ runs[2].es = "closed" /\ runs[2].closes = 1
    /\ esRef = NoRun

\* C28: the done event is the last entry of the TraceLog it is in, so a
\* TraceLog holds at most one; once the done listener of the current run has
\* run, no step before the next start makes the TraceLog longer, whatever
\* the service sends.
C28_NothingAfterDone ==
    /\ [](\A k \in 1..Len(traces) : traces[k].type = "done" => k = Len(traces))
    /\ [][(nruns > 0 /\ runs[nruns].loops >= 1 /\ nruns' = nruns) =>
            Len(traces') <= Len(traces)]_vars

\* C28 witness: the service sent done twice; the TraceLog of the ended run
\* holds a log event and one done event.
C28_Witness ==
    /\ nruns > 0 /\ doneSent[nruns] = 2 /\ runs[nruns].pc = "end"
    /\ Len(traces) = 2 /\ traces[1].type = "log" /\ traces[2].type = "done"

\* C29: with every submit and poll request answered, every run whose submit
\* succeeded eventually ends, Completed or Failed with Run enabled again,
\* whatever the stream does: it never stays Streaming for ever.
C29_RunEventuallyEnds ==
    \A r \in Runs :
        (runs[r].pc = "stream") ~>
            (runs[r].pc = "end" /\ Phase \in {"Completed", "Failed"} /\ ~loading /\ ~streaming)

\* A run is in progress: its submit is out, its stream is open or not yet
\* done with, or its poll loop is in flight.
InProgress(r) ==
    \/ runs[r].pc \in {"submit", "submitBody", "stream", "poll", "pollBody", "wait"}
    \/ StreamOpen(r)

\* C30: while a run is in progress loading and streaming are set, which
\* disables Run; no step taken while loading or streaming is set starts a
\* run or issues a submit request, and a submit request is issued only when
\* no submit, no open stream and no poll loop of the client is live.
C30_NoStartWhileRunning ==
    /\ [](\A r \in Runs : InProgress(r) => (loading /\ streaming))
    /\ [][/\ (loading \/ streaming) => (nruns' = nruns /\ submits' = submits)
          /\ submits' # submits =>
                /\ ~loading /\ ~streaming
                /\ \A r \in Runs : ~InProgress(r)]_vars

\* C30 witness: a second run was started after the first had ended, and is
\* polling with loading and streaming set.
C30_Witness ==
    /\ nruns = 2 /\ submits = 2 /\ runs[1].pc = "end"
    /\ runs[2].pc = "poll" /\ loading /\ streaming

\* The type of the one TraceEvent a delivery should append: client-error for
\* the native error event of a connection failure, else the message's name.
ExpectedType(m) == IF m = NativeError THEN "client-error" ELSE m.event

\* C31: every single delivery from the stream appends exactly one TraceEvent
\* whose type matches what was delivered: a server-named error message
\* appends one event of type error, a connection failure (the native error
\* event) appends one event of type client-error, never two events for one
\* delivery.
C31_OneEventPerDelivery ==
    [][Len(traces') > Len(traces) =>
        /\ Len(traces') = Len(traces) + 1
        /\ traces'[Len(traces')].type = ExpectedType(arrived'[Len(arrived')])]_vars

\* GET requests of run r's poll loop that have been answered: the not-ready
\* answers, and the answer that ended the loop.
PollAnswers(r) ==
    runs[r].notReady
    + (IF runs[r].last # NoResponse /\ ~NotReady(runs[r].last) THEN 1 ELSE 0)

\* GET requests of run r issued and not yet answered.
Outstanding(r) == runs[r].polls - PollAnswers(r)

\* Wait timers of run r started (one per not-ready answer) and not yet fired
\* (each firing increments the loop counter).
PendingTimers(r) == runs[r].notReady - runs[r].i

\* C32: within one poll loop at most one poll request is outstanding at any
\* time and at most one wait timer is pending, never both at once; a request
\* after the first is issued only when the previous one has returned
\* not-ready and the wait that follows it has elapsed.
C32_OnePollOutstanding ==
    /\ [](\A r \in Runs :
            /\ Outstanding(r) \in {0, 1}
            /\ PendingTimers(r) \in {0, 1}
            /\ Outstanding(r) + PendingTimers(r) <= 1
            /\ runs[r].loops <= 1)
    /\ [][\A r \in Runs :
            (runs'[r].polls = runs[r].polls + 1 /\ runs[r].polls > 0) =>
                /\ Outstanding(r) = 0
                /\ NotReady(runs[r].last)
                /\ PendingTimers(r) = 1
                /\ PendingTimers(r)' = 0]_vars

\* C32 witness: the second request of a poll loop is outstanding, after one
\* not-ready answer and one elapsed wait.
C32_Witness ==
    \E r \in Runs :
        /\ runs[r].pc = "poll" /\ runs[r].polls = 2 /\ runs[r].notReady = 1
        /\ runs[r].i = 1
        /\ Outstanding(r) = 1 /\ PendingTimers(r) = 0

\* C33: a start rejected for a blank task changes only the error: TraceLog,
\* RunResult, current handle, stream subscription and the loading and
\* streaming flags are exactly as before the call.
C33_BlankStartOnlyError ==
    [][(ClickRun /\ Blank(task)) =>
        /\ UNCHANGED <<traces, resp, runId, esRef, loading, streaming>>
        /\ UNCHANGED <<task, runs, nruns, submits, doneSent, traceRun, arrived, respRun>>]_vars

\* C33 witness: a blank start was rejected after a completed run, and that
\* run's TraceLog, RunResult and handle are all still in place.
C33_Witness ==
    /\ Blank(task)
    /\ \E k \in DOMAIN task : task[k] # " "
    /\ error = "Please enter a task before running the swarm."
    /\ traces # <<>> /\ resp # <<>> /\ runId # Null
    /\ esRef = NoRun /\ ~loading /\ ~streaming

\* The step ends a run: its submit request failed, or its poll loop finished
\* (result, failure or timeout).
RunEnds ==
    \E r \in Runs :
        /\ runs[r].pc \in {"submit", "submitBody", "poll", "pollBody", "wait"}
        /\ runs'[r].pc = "end"

\* C36: in every reachable state the two progress flags agree (loading is
\* true exactly when streaming is true): they are set to true together at a
\* valid start and to false together on submit failure and when the poll
\* after done has finished.
C36_FlagsAgree ==
    /\ [](loading <=> streaming)
    /\ [][(loading' # loading \/ streaming' # streaming) =>
            /\ loading' = streaming'
            /\ loading' => (nruns' = nruns + 1 /\ ~Blank(task))
            /\ ~loading' => RunEnds]_vars

\* C36 witness: a submit request failed and both flags are down, the error
\* of the failure recorded.
C36_Witness ==
    /\ nruns > 0
    /\ runs[nruns].pc = "end" /\ runs[nruns].sub.status = 500
    /\ error = "HTTP 500"
    /\ ~loading /\ ~streaming

\* C34: after any sequence of roster edits (addAgent, removeAgent, renaming
\* through updateAgent) and entry-point selections, the entry point submitted
\* in a run request equals the name of some agent in that request's agent
\* list.
C34_EntryPointInRoster ==
    [][submits' = submits + 1 =>
        \E k \in DOMAIN payload.agents :
            payload.agents[k].name = payload.settings.entry_point]_vars

\* C35: after any sequence of addAgent and removeAgent operations starting
\* from the default roster, the agent names in the roster, and so in any
\* submitted request, are pairwise distinct.
C35_UniqueAgentNames ==
    \A i, j \in DOMAIN agents : i # j => agents[i].name # agents[j].name

====
